---- MODULE Spec2Model ----
(***************************************************************************)
(* Boostly AE Commission Calculator (src/src/App.js).                      *)
(*                                                                         *)
(* The component CommissionCalculatorApp holds eleven useState fields, a   *)
(* useMemo'd breakdown `computed` derived from them, and one setter per    *)
(* field wired to an input of the form.                                    *)
(*                                                                         *)
(* Numbers.  JavaScript numbers are IEEE-754 doubles; here they are exact  *)
(* rationals [n, d] in lowest terms with d > 0.  The comparisons of the    *)
(* code (>= 0.35, >= 0.20, > 0, min, max) agree with the exact ones for    *)
(* the magnitudes of the model (deal counts far below 2^52).               *)
(*                                                                         *)
(* Field values.  A field holds either the number given to useState        *)
(* ([num |-> 72000]) or the text of an input element ([str |-> <<"7",      *)
(* "2">>], a sequence of one-character strings).                           *)
(***************************************************************************)
EXTENDS Integers, Sequences, FiniteSets, TLC

\* Number of edits of the form explored from the initial state.
MaxEdits == 3

----------------------------------------------------------------------------
\* Rational arithmetic standing for the double arithmetic of the code.

Abs(i) == IF i < 0 THEN -i ELSE i

RECURSIVE GCD(_, _)
GCD(a, b) == IF b = 0 THEN a ELSE GCD(b, a % b)

R(n, d) ==
    LET g == GCD(Abs(n), Abs(d))
        s == IF d < 0 THEN -1 ELSE 1
    IN  [n |-> (s * n) \div g, d |-> (s * d) \div g]

Z(i) == [n |-> i, d |-> 1]

RAdd(a, b) == R(a.n * b.d + b.n * a.d, a.d * b.d)
RSub(a, b) == R(a.n * b.d - b.n * a.d, a.d * b.d)
RMul(a, b) == R(a.n * b.n, a.d * b.d)
RDiv(a, b) == R(a.n * b.d, a.d * b.n)
RLt(a, b) == a.n * b.d < b.n * a.d
RLe(a, b) == a.n * b.d <= b.n * a.d
RGe(a, b) == RLe(b, a)
RGt(a, b) == RLt(b, a)

\* Math.max, Math.min, Math.floor
MathMax(a, b) == IF RGe(a, b) THEN a ELSE b
MathMin(a, b) == IF RLe(a, b) THEN a ELSE b
MathFloor(a) == Z(a.n \div a.d)

----------------------------------------------------------------------------
\* Text, String(v), parseFloat and toNumber.

Digits == {"0", "1", "2", "3", "4", "5", "6", "7", "8", "9"}

DigitVal == ("0" :> 0) @@ ("1" :> 1) @@ ("2" :> 2) @@ ("3" :> 3) @@ ("4" :> 4)
         @@ ("5" :> 5) @@ ("6" :> 6) @@ ("7" :> 7) @@ ("8" :> 8) @@ ("9" :> 9)

DigitChar == <<"0", "1", "2", "3", "4", "5", "6", "7", "8", "9">>

\* The value of parseFloat on a text with no numeric prefix.
NaN == [nan |-> TRUE]

Num(i) == [num |-> i]
Str(s) == [str |-> s]
IsNum(v) == DOMAIN v = {"num"}

RECURSIVE NatToText(_)
NatToText(i) ==
    IF i < 10 THEN <<DigitChar[i + 1]>>
    ELSE NatToText(i \div 10) \o <<DigitChar[(i % 10) + 1]>>

\* String(v) for the values a field can hold: the integer given to useState
\* or the text of an input.
String(v) ==
    IF IsNum(v)
    THEN IF v.num < 0 THEN <<"-">> \o NatToText(-v.num) ELSE NatToText(v.num)
    ELSE v.str

\* .replace(/[^0-9.-]/g, "")
StripNonNumeric(s) == SelectSeq(s, LAMBDA c : c \in Digits \cup {".", "-"})

\* Length of the longest run of digits of s that starts at position i.
RECURSIVE DigitRun(_, _)
DigitRun(s, i) ==
    IF i <= Len(s) /\ s[i] \in Digits THEN 1 + DigitRun(s, i + 1) ELSE 0

\* Value of the k digits of s that start at position i, after acc.
RECURSIVE DigitsValue(_, _, _, _)
DigitsValue(s, i, k, acc) ==
    IF k = 0 THEN acc
    ELSE DigitsValue(s, i + 1, k - 1, 10 * acc + DigitVal[s[i]])

RECURSIVE Pow10(_)
Pow10(k) == IF k = 0 THEN 1 ELSE 10 * Pow10(k - 1)

\* The number read from s: il integer digits from position start, then a
\* "." and fl fraction digits; NaN when there is no digit at all.
NumericPrefix(s, start, il, fl, negative) ==
    IF il = 0 /\ fl = 0 THEN NaN
    ELSE R((IF negative THEN -1 ELSE 1)
             * (DigitsValue(s, start, il, 0) * Pow10(fl)
                  + DigitsValue(s, start + il + 1, fl, 0)),
           Pow10(fl))

\* The fraction digits that follow il integer digits, if a "." does.
FractionRun(s, start, il) ==
    IF start + il <= Len(s) /\ s[start + il] = "."
    THEN DigitRun(s, start + il + 1)
    ELSE 0

DecimalAt(s, start, il, negative) ==
    NumericPrefix(s, start, il, FractionRun(s, start, il), negative)

\* parseFloat on a text without white space, exponent or "Infinity" (the
\* replace above leaves none): an optional sign, then the longest prefix of
\* the form digits [. digits] or . digits; NaN when there is none.
parseFloat(s) ==
    IF Len(s) > 0 /\ s[1] \in {"-", "+"}
    THEN DecimalAt(s, 2, DigitRun(s, 2), s[1] = "-")
    ELSE DecimalAt(s, 1, DigitRun(s, 1), FALSE)

toNumber(v) ==
    LET n == parseFloat(StripNonNumeric(String(v)))
    IN  IF n = NaN THEN Z(0) ELSE n

clampPct(n) == MathMin(Z(100), MathMax(Z(0), n))

----------------------------------------------------------------------------
\* The body of the useMemo callback, one operator per derived value.

\* Fault: a quota of 0 counts as fully attained.
attainment_full_without_quota(arr, quotaArr) ==
    IF RGt(quotaArr, Z(0)) THEN RDiv(arr, quotaArr) ELSE Z(1)

\* const attainment = quotaArr > 0 ? arr / quotaArr : 0
attainment(arr, quotaArr) ==
    IF RGt(quotaArr, Z(0)) THEN RDiv(arr, quotaArr) ELSE Z(0)

\* Fault: the cap at 100% attainment is missing.
basePayout_uncapped(att, baseAt100) == RMul(att, baseAt100)

\* const basePayout = Math.min(1, attainment) * baseAt100
basePayout(att, baseAt100) == RMul(MathMin(Z(1), att), baseAt100)

\* const bundlePct = deals > 0 ? bundles / deals : 0
bundlePct(bundles, deals) ==
    IF RGt(deals, Z(0)) THEN RDiv(bundles, deals) ELSE Z(0)

\* Fault: the two tier amounts are swapped.
bundleBonus_swapped(pct, b35, b20) ==
    IF RGe(pct, R(35, 100)) THEN toNumber(b20)
    ELSE IF RGe(pct, R(20, 100)) THEN toNumber(b35)
    ELSE Z(0)

\* Fault: the 35% tier is added on top of the 20% tier.
bundleBonus_cumulative(pct, b35, b20) ==
    IF RGe(pct, R(35, 100)) THEN RAdd(toNumber(b35), toNumber(b20))
    ELSE IF RGe(pct, R(20, 100)) THEN toNumber(b20)
    ELSE Z(0)

\* let bundleBonus = 0; if (bundlePct >= 0.35) ...; else if (bundlePct >= 0.20) ...
bundleBonus(pct, b35, b20) ==
    IF RGe(pct, R(35, 100)) THEN toNumber(b35)
    ELSE IF RGe(pct, R(20, 100)) THEN toNumber(b20)
    ELSE Z(0)

\* Fault: the operands of the subtraction are exchanged.
overARR_reversed(arr, quotaArr) == MathMax(Z(0), RSub(quotaArr, arr))

\* const overARR = Math.max(0, arr - quotaArr)
overARR(arr, quotaArr) == MathMax(Z(0), RSub(arr, quotaArr))

\* Fault: the bundled-share extra is added whether or not the option is on.
accelerator_always_shared(over, useShare, sharePct) ==
    LET acc == RMul(RDiv(over, Z(12)), R(125, 100))
        share == RDiv(clampPct(toNumber(sharePct)), Z(100))
    IN  RAdd(acc, RMul(RMul(RDiv(over, Z(12)), share), R(25, 100)))

\* let accelerator = (overARR / 12) * 1.25; if (useOverQuotaBundleShare) ...
accelerator(over, useShare, sharePct) ==
    LET acc == RMul(RDiv(over, Z(12)), R(125, 100))
        share == RDiv(clampPct(toNumber(sharePct)), Z(100))
    IN  IF useShare
        THEN RAdd(acc, RMul(RMul(RDiv(over, Z(12)), share), R(25, 100)))
        ELSE acc

\* Fault: the clawbacks are added instead of subtracted.
total_clawbacks_added(bp, bb, acc, kicker, cb) ==
    RAdd(RAdd(RAdd(RAdd(bp, bb), acc), kicker), cb)

\* const total = basePayout + bundleBonus + accelerator + kicker - cb
total(bp, bb, acc, kicker, cb) ==
    RSub(RAdd(RAdd(RAdd(bp, bb), acc), kicker), cb)

\* The breakdown computed from a snapshot f of the fields.
Compute(f) ==
    LET quotaArr == MathMax(Z(0), toNumber(f.quotaARR))
        baseAt100 == MathMax(Z(0), toNumber(f.basePayoutAt100))
        arr == MathMax(Z(0), toNumber(f.arrSold))
        att == attainment(arr, quotaArr)
        bp == basePayout(att, baseAt100)
        deals == MathMax(Z(0), MathFloor(toNumber(f.totalDeals)))
        bundles == MathMax(Z(0), MathFloor(toNumber(f.bundleCount)))
        pct == bundlePct(bundles, deals)
        bb == bundleBonus(pct, f.bundle35Bonus, f.bundle20Bonus)
        over == overARR(arr, quotaArr)
        acc == accelerator(over, f.useOverQuotaBundleShare,
                           f.overQuotaBundleSharePct)
        kicker == toNumber(f.prepaidKicker)
        cb == toNumber(f.clawbacks)
    IN  [arr |-> arr, quotaArr |-> quotaArr, attainment |-> att,
         basePayout |-> bp, bundlePct |-> pct, bundleBonus |-> bb,
         overARR |-> over, accelerator |-> acc, kicker |-> kicker,
         clawbacks |-> cb, total |-> total(bp, bb, acc, kicker, cb)]

\* Fault: clawbacks and the share percentage are missing from the list.
Deps_incomplete ==
    {"quotaARR", "basePayoutAt100", "bundle20Bonus", "bundle35Bonus", "arrSold",
     "totalDeals", "bundleCount", "prepaidKicker", "useOverQuotaBundleShare"}

\* The dependency list of the useMemo.
Deps ==
    {"quotaARR", "basePayoutAt100", "bundle20Bonus", "bundle35Bonus", "arrSold",
     "totalDeals", "bundleCount", "prepaidKicker", "clawbacks",
     "useOverQuotaBundleShare", "overQuotaBundleSharePct"}

\* useMemo: the callback runs again only when a dependency changed since the
\* render that produced the memoized value.
useMemo(prevValue, prevDeps, f) ==
    LET deps == [k \in Deps |-> f[k]]
    IN  IF deps = prevDeps THEN [value |-> prevValue, deps |-> prevDeps]
        ELSE [value |-> Compute(f), deps |-> deps]

----------------------------------------------------------------------------
\* Texts an input element can deliver (e.target.value).

\* Texts of the type="text" inputs, one set per field.
QuotaTexts ==
    { <<"0">>, <<"-", "5", "0", "0">>, <<"$", "3", "6", ",", "0", "0", "0">>,
      <<"7", "2", "0", "0", "0">> }
BasePayoutTexts == { <<"1", "0", "0", "0">>, <<"-", "5", "0", "0">> }
Bundle20Texts == { <<"0">>, <<"1", "0", "0", "0">>, <<"-", "5", "0", "0">> }
Bundle35Texts == { <<"5", "0", "0">>, <<"-", "5", "0", "0">> }
ArrSoldTexts ==
    { <<"0">>, <<"$", "3", "6", ",", "0", "0", "0">>, <<"7", "2", "0", "0", "0">>,
      <<"-", "5", "0", "0">> }
KickerTexts ==
    { <<"-", "5", "0", "0">>, <<"1", "2", ".", "5">>, <<"a", "b", "c">>,
      <<"-", "-", "5">>, <<".", "5", ".", "2">> }
ClawbackTexts == { <<"5", "0", "0">>, <<"-", "5", "0", "0">>, <<"1", "2", ".", "5">> }
SharePctTexts ==
    { <<"5", "0">>, <<"1", "2", ".", "5">>, <<"1", "5", "0">>, <<"-", "2", "0">> }

\* Texts of the type="number" inputs: a valid number or the empty text.
DealTexts ==
    { <<>>, <<"0">>, <<"4">>, <<"7">>, <<"2", "0">>, <<"2", "3">>,
      <<"7", ".", "9">>, <<"-", "3">> }

----------------------------------------------------------------------------
VARIABLES
    quotaARR, basePayoutAt100, bundle20Bonus, bundle35Bonus,
    arrSold, totalDeals, bundleCount, prepaidKicker, clawbacks,
    useOverQuotaBundleShare, overQuotaBundleSharePct,
    computed,   \* the memoized breakdown shown by the Payout Summary
    memoDeps,   \* the dependency values the memoized breakdown was made from
    edits       \* number of edits made so far

fields ==
    <<quotaARR, basePayoutAt100, bundle20Bonus, bundle35Bonus, arrSold,
      totalDeals, bundleCount, prepaidKicker, clawbacks,
      useOverQuotaBundleShare, overQuotaBundleSharePct>>

vars == <<fields, computed, memoDeps, edits>>

\* The snapshot of the fields a render reads.
Snapshot ==
    [quotaARR |-> quotaARR, basePayoutAt100 |-> basePayoutAt100,
     bundle20Bonus |-> bundle20Bonus, bundle35Bonus |-> bundle35Bonus,
     arrSold |-> arrSold, totalDeals |-> totalDeals,
     bundleCount |-> bundleCount, prepaidKicker |-> prepaidKicker,
     clawbacks |-> clawbacks,
     useOverQuotaBundleShare |-> useOverQuotaBundleShare,
     overQuotaBundleSharePct |-> overQuotaBundleSharePct]

\* The useState initial values.
InitialFields ==
    [quotaARR |-> Num(72000), basePayoutAt100 |-> Num(5833),
     bundle20Bonus |-> Num(500), bundle35Bonus |-> Num(1000),
     arrSold |-> Num(93600), totalDeals |-> Num(22), bundleCount |-> Num(7),
     prepaidKicker |-> Num(100), clawbacks |-> Num(0),
     useOverQuotaBundleShare |-> FALSE,
     overQuotaBundleSharePct |-> Num(0)]

\* The first render: every field at its useState value, the memo computed.
Init ==
    /\ quotaARR = InitialFields.quotaARR
    /\ basePayoutAt100 = InitialFields.basePayoutAt100
    /\ bundle20Bonus = InitialFields.bundle20Bonus
    /\ bundle35Bonus = InitialFields.bundle35Bonus
    /\ arrSold = InitialFields.arrSold
    /\ totalDeals = InitialFields.totalDeals
    /\ bundleCount = InitialFields.bundleCount
    /\ prepaidKicker = InitialFields.prepaidKicker
    /\ clawbacks = InitialFields.clawbacks
    /\ useOverQuotaBundleShare = InitialFields.useOverQuotaBundleShare
    /\ overQuotaBundleSharePct = InitialFields.overQuotaBundleSharePct
    /\ computed = Compute(InitialFields)
    /\ memoDeps = [k \in Deps |-> InitialFields[k]]
    /\ edits = 0

\* The render that follows a state update.
Render ==
    LET m == useMemo(computed, memoDeps, Snapshot')
    IN  /\ computed' = m.value
        /\ memoDeps' = m.deps

\* An input event: the element's value differs from the field it shows.
Edit(old, new) ==
    /\ edits < MaxEdits
    /\ new # old
    /\ edits' = edits + 1

setQuotaARR ==
    \E t \in QuotaTexts :
        /\ Edit(quotaARR, Str(t))
        /\ quotaARR' = Str(t)
        /\ UNCHANGED <<basePayoutAt100, bundle20Bonus, bundle35Bonus, arrSold,
                       totalDeals, bundleCount, prepaidKicker, clawbacks,
                       useOverQuotaBundleShare, overQuotaBundleSharePct>>
        /\ Render

setBasePayoutAt100 ==
    \E t \in BasePayoutTexts :
        /\ Edit(basePayoutAt100, Str(t))
        /\ basePayoutAt100' = Str(t)
        /\ UNCHANGED <<quotaARR, bundle20Bonus, bundle35Bonus, arrSold,
                       totalDeals, bundleCount, prepaidKicker, clawbacks,
                       useOverQuotaBundleShare, overQuotaBundleSharePct>>
        /\ Render

setBundle20Bonus ==
    \E t \in Bundle20Texts :
        /\ Edit(bundle20Bonus, Str(t))
        /\ bundle20Bonus' = Str(t)
        /\ UNCHANGED <<quotaARR, basePayoutAt100, bundle35Bonus, arrSold,
                       totalDeals, bundleCount, prepaidKicker, clawbacks,
                       useOverQuotaBundleShare, overQuotaBundleSharePct>>
        /\ Render

setBundle35Bonus ==
    \E t \in Bundle35Texts :
        /\ Edit(bundle35Bonus, Str(t))
        /\ bundle35Bonus' = Str(t)
        /\ UNCHANGED <<quotaARR, basePayoutAt100, bundle20Bonus, arrSold,
                       totalDeals, bundleCount, prepaidKicker, clawbacks,
                       useOverQuotaBundleShare, overQuotaBundleSharePct>>
        /\ Render

setArrSold ==
    \E t \in ArrSoldTexts :
        /\ Edit(arrSold, Str(t))
        /\ arrSold' = Str(t)
        /\ UNCHANGED <<quotaARR, basePayoutAt100, bundle20Bonus, bundle35Bonus,
                       totalDeals, bundleCount, prepaidKicker, clawbacks,
                       useOverQuotaBundleShare, overQuotaBundleSharePct>>
        /\ Render

setTotalDeals ==
    \E t \in DealTexts :
        /\ Edit(totalDeals, Str(t))
        /\ totalDeals' = Str(t)
        /\ UNCHANGED <<quotaARR, basePayoutAt100, bundle20Bonus, bundle35Bonus,
                       arrSold, bundleCount, prepaidKicker, clawbacks,
                       useOverQuotaBundleShare, overQuotaBundleSharePct>>
        /\ Render

setBundleCount ==
    \E t \in DealTexts :
        /\ Edit(bundleCount, Str(t))
        /\ bundleCount' = Str(t)
        /\ UNCHANGED <<quotaARR, basePayoutAt100, bundle20Bonus, bundle35Bonus,
                       arrSold, totalDeals, prepaidKicker, clawbacks,
                       useOverQuotaBundleShare, overQuotaBundleSharePct>>
        /\ Render

setPrepaidKicker ==
    \E t \in KickerTexts :
        /\ Edit(prepaidKicker, Str(t))
        /\ prepaidKicker' = Str(t)
        /\ UNCHANGED <<quotaARR, basePayoutAt100, bundle20Bonus, bundle35Bonus,
                       arrSold, totalDeals, bundleCount, clawbacks,
                       useOverQuotaBundleShare, overQuotaBundleSharePct>>
        /\ Render

setClawbacks ==
    \E t \in ClawbackTexts :
        /\ Edit(clawbacks, Str(t))
        /\ clawbacks' = Str(t)
        /\ UNCHANGED <<quotaARR, basePayoutAt100, bundle20Bonus, bundle35Bonus,
                       arrSold, totalDeals, bundleCount, prepaidKicker,
                       useOverQuotaBundleShare, overQuotaBundleSharePct>>
        /\ Render

\* onChange of the checkbox: e.target.checked is the opposite of the field.
setUseOverQuotaBundleShare ==
    /\ Edit(useOverQuotaBundleShare, ~useOverQuotaBundleShare)
    /\ useOverQuotaBundleShare' = ~useOverQuotaBundleShare
    /\ UNCHANGED <<quotaARR, basePayoutAt100, bundle20Bonus, bundle35Bonus,
                   arrSold, totalDeals, bundleCount, prepaidKicker, clawbacks,
                   overQuotaBundleSharePct>>
    /\ Render

\* The percentage input is rendered only while the checkbox is checked.
setOverQuotaBundleSharePct ==
    \E t \in SharePctTexts :
        /\ useOverQuotaBundleShare
        /\ Edit(overQuotaBundleSharePct, Str(t))
        /\ overQuotaBundleSharePct' = Str(t)
        /\ UNCHANGED <<quotaARR, basePayoutAt100, bundle20Bonus, bundle35Bonus,
                       arrSold, totalDeals, bundleCount, prepaidKicker, clawbacks,
                       useOverQuotaBundleShare>>
        /\ Render

Next ==
    \/ setQuotaARR
    \/ setBasePayoutAt100
    \/ setBundle20Bonus
    \/ setBundle35Bonus
    \/ setArrSold
    \/ setTotalDeals
    \/ setBundleCount
    \/ setPrepaidKicker
    \/ setClawbacks
    \/ setUseOverQuotaBundleShare
    \/ setOverQuotaBundleSharePct

Spec == Init /\ [][Next]_vars

----------------------------------------------------------------------------
\* Normalized inputs, restated from the current fields for the properties.

QuotaN == MathMax(Z(0), toNumber(quotaARR))
ArrN == MathMax(Z(0), toNumber(arrSold))
BaseAt100N == MathMax(Z(0), toNumber(basePayoutAt100))
DealsN == MathMax(Z(0), MathFloor(toNumber(totalDeals))).n
BundlesN == MathMax(Z(0), MathFloor(toNumber(bundleCount))).n
Tier20 == toNumber(bundle20Bonus)
Tier35 == toNumber(bundle35Bonus)
IsPos(x) == x.n > 0
IsNeg(x) == x.n < 0
OverN == IF RGt(ArrN, QuotaN) THEN RSub(ArrN, QuotaN) ELSE Z(0)
ShareN ==
    LET p == toNumber(overQuotaBundleSharePct)
    IN  IF IsNeg(p) THEN Z(0) ELSE IF RGt(p, Z(100)) THEN Z(1) ELSE RDiv(p, Z(100))

\* Gains of the breakdown: everything added into total.
Additions ==
    RAdd(computed.basePayout,
         RAdd(computed.bundleBonus, RAdd(computed.accelerator, computed.kicker)))

\* 2 for a bundle rate >= 35%, 1 for a rate in [20%, 35%), 0 below.
Tier(pct) == IF 20 * pct.n >= 7 * pct.d THEN 2 ELSE IF 5 * pct.n >= pct.d THEN 1 ELSE 0

----------------------------------------------------------------------------
\* C1: in every breakdown, total = basePayout + bundleBonus + accelerator +
\* kicker - clawbacks over the fields of that same breakdown, kicker being the
\* normalized prepaidKicker.
C1_TotalIsSumOfParts ==
    /\ computed.kicker = toNumber(prepaidKicker)
    /\ RAdd(computed.total, computed.clawbacks) = Additions

C1_Witness ==
    /\ edits > 0
    /\ IsPos(computed.clawbacks)
    /\ IsNeg(computed.kicker)
    /\ IsPos(computed.accelerator)
    /\ IsPos(computed.bundleBonus)

\* C2: the clawbacks of the breakdown are >= 0 whatever the raw input, so
\* total never exceeds basePayout + bundleBonus + accelerator + kicker, while
\* the kicker keeps its sign.
C2_ClawbacksClampedNonNegative ==
    /\ ~IsNeg(computed.clawbacks)
    /\ RLe(computed.total, Additions)
    /\ computed.kicker = toNumber(prepaidKicker)

\* C3: bundleBonus is >= 0 whatever the configured tier amounts, just as
\* quotaArr, arr and the deal counts used are >= 0.
C3_BonusClampedNonNegative ==
    /\ ~IsNeg(computed.bundleBonus)
    /\ ~IsNeg(computed.quotaArr)
    /\ ~IsNeg(computed.arr)
    /\ ~IsNeg(computed.bundlePct)

\* An edit that leaves the tier amounts alone and moves the bundle rate to
\* the same or a higher tier.
TierNotLowered ==
    /\ UNCHANGED <<bundle20Bonus, bundle35Bonus>>
    /\ Tier(computed'.bundlePct) >= Tier(computed.bundlePct)

BonusNotLowered ==
    /\ RGe(computed'.bundleBonus, computed.bundleBonus)
    /\ (Tier(computed.bundlePct) = 0 => computed.bundleBonus = Z(0))

\* C4 as stated: for any positive tier amounts, the bonus at a higher bundle
\* tier is >= the bonus at a lower one, and the bonus below 20% is 0.
C4_MonotonicForPositiveTiers ==
    [][(IsPos(Tier20) /\ IsPos(Tier35) /\ TierNotLowered) => BonusNotLowered]_vars

\* C4 amended: the same, for positive tier amounts with
\* bundle35Bonus >= bundle20Bonus.
C4_MonotonicForOrderedTiers ==
    [][(IsPos(Tier20) /\ RGe(Tier35, Tier20) /\ TierNotLowered)
          => BonusNotLowered]_vars

C4_Witness ==
    /\ edits > 0
    /\ IsPos(Tier20)
    /\ RGt(Tier35, Tier20)
    /\ Tier(computed.bundlePct) = 2
    /\ computed.bundleBonus = Tier35

C6_ProRatedAndCapped ==
    /\ (IsPos(QuotaN) /\ RLe(ArrN, QuotaN)
          => computed.basePayout = RMul(RDiv(ArrN, QuotaN), BaseAt100N))
    /\ (RGe(ArrN, QuotaN) => computed.basePayout = BaseAt100N)
    /\ RLe(computed.basePayout, BaseAt100N)

\* C6 amended: the cap at basePayoutAt100 for arrSold >= quotaArr holds for
\* quotaArr > 0; the rest as stated.
C6_ProRatedAndCappedForPositiveQuota ==
    /\ (IsPos(QuotaN) /\ RLe(ArrN, QuotaN)
          => computed.basePayout = RMul(RDiv(ArrN, QuotaN), BaseAt100N))
    /\ (IsPos(QuotaN) /\ RGe(ArrN, QuotaN) => computed.basePayout = BaseAt100N)
    /\ RLe(computed.basePayout, BaseAt100N)

C6_Witness ==
    /\ edits > 0
    /\ IsPos(ArrN)
    /\ RLt(ArrN, QuotaN)
    /\ IsPos(computed.basePayout)
    /\ RLt(computed.basePayout, BaseAt100N)

\* C7: quotaArr = 0 gives attainment = 0 and basePayout = 0; totalDeals = 0
\* gives bundlePct = 0 and bundleBonus = 0.
C7_ZeroDenominator ==
    /\ (QuotaN = Z(0)
          => computed.attainment = Z(0) /\ computed.basePayout = Z(0))
    /\ (DealsN = 0
          => computed.bundlePct = Z(0) /\ computed.bundleBonus = Z(0))

C7_Witness ==
    /\ QuotaN = Z(0)
    /\ IsPos(ArrN)
    /\ IsPos(BaseAt100N)
    /\ DealsN = 0
    /\ BundlesN > 0
    /\ computed.basePayout = Z(0)
    /\ computed.bundleBonus = Z(0)

\* C8: overARR = max(0, arrSold - quotaArr); with the option off the
\* accelerator is (overARR/12)*1.25 and the percentage changes no field of
\* the breakdown; with it on, (overARR/12)*share*0.25 is added, share being the
\* percentage clamped to [0, 100] over 100; below quota the accelerator is 0.
C8_Accelerator ==
    LET monthly == RDiv(OverN, Z(12))
        base == RMul(monthly, R(5, 4))
    IN  /\ computed.overARR = OverN
        /\ (~useOverQuotaBundleShare =>
              /\ computed.accelerator = base
              /\ \A t \in SharePctTexts :
                    Compute([Snapshot EXCEPT !.overQuotaBundleSharePct = Str(t)])
                        = computed)
        /\ (useOverQuotaBundleShare =>
              computed.accelerator
                  = RAdd(base, RMul(RMul(monthly, ShareN), R(1, 4))))
        /\ (RLt(ArrN, QuotaN) => computed.accelerator = Z(0))

C8_Witness ==
    /\ ~useOverQuotaBundleShare
    /\ IsPos(toNumber(overQuotaBundleSharePct))
    /\ IsPos(computed.overARR)
    /\ IsPos(computed.accelerator)

\* The inputs of the reference sheet, as numbers.
ReferenceScenario ==
    /\ toNumber(quotaARR) = Z(72000)
    /\ toNumber(basePayoutAt100) = Z(5833)
    /\ toNumber(bundle20Bonus) = Z(500)
    /\ toNumber(bundle35Bonus) = Z(1000)
    /\ toNumber(arrSold) = Z(93600)
    /\ toNumber(totalDeals) = Z(22)
    /\ toNumber(bundleCount) = Z(7)
    /\ toNumber(prepaidKicker) = Z(100)
    /\ toNumber(clawbacks) = Z(0)
    /\ ~useOverQuotaBundleShare

\* C9: the form starts in the reference-sheet scenario, and that scenario
\* yields attainment 1.3, basePayout 5833, bundleBonus 500 at a bundle rate
\* of 7/22, overARR 21600, accelerator 2250 and total 8683.
C9_ReferenceScenario ==
    /\ (edits = 0 => ReferenceScenario)
    /\ (ReferenceScenario =>
          /\ computed.attainment = R(13, 10)
          /\ computed.basePayout = Z(5833)
          /\ computed.bundlePct = R(7, 22)
          /\ computed.bundleBonus = Z(500)
          /\ computed.overARR = Z(21600)
          /\ computed.accelerator = Z(2250)
          /\ computed.total = Z(8683))

C9_Witness ==
    /\ edits > 0
    /\ ReferenceScenario
    /\ computed.total = Z(8683)

\* At most one field differs between the two states of a step.
OneFieldEdited ==
    Cardinality({i \in 1..Len(fields) : fields'[i] # fields[i]}) <= 1

\* C10: after any sequence of edits the memoized breakdown is the computation
\* applied to the current values of all eleven fields, and an edit changes no
\* field other than the one edited.
C10_NeverStale ==
    /\ computed = Compute(Snapshot)
    /\ [][computed' = Compute(Snapshot') /\ OneFieldEdited]_vars

C10_Witness ==
    /\ edits > 0
    /\ useOverQuotaBundleShare
    /\ IsPos(toNumber(overQuotaBundleSharePct))
    /\ IsPos(computed.clawbacks)

====
